---------------------------- MODULE Spec2Model ----------------------------
(***************************************************************************)
(* A model of the crawler of site-to-md (src/src/crawl.ts): the sitemap    *)
(* resolver, the link extractor, the glob path filter and the batch        *)
(* dispatch loop of crawlSite, and of agentReady (src/src/index.ts), which *)
(* calls it and writes the output files.                                   *)
(*                                                                         *)
(* Strings are sequences of one-character strings.  A URL string is the    *)
(* record [origin, path, hash]: origin "" stands for a string that         *)
(* `new URL(u)` cannot parse without a base (a relative reference such as  *)
(* "/about"), origin "!" for a string no URL parser accepts; path is the   *)
(* pathname, character by character; hash says whether a non-empty        *)
(* fragment is present.                                                    *)
(***************************************************************************)
EXTENDS Integers, Sequences, FiniteSets, TLC

-----------------------------------------------------------------------------
(* Bounds of the model *)

MaxConc == 2
MaxDepthCfg == 2
MaxPatLen == 3
MaxPathLen == 3

(* Program constants *)

DEFAULT_CONCURRENCY == 5
DEFAULT_MAX_DEPTH == 3

\* An optional config field is <<>> when undefined and <<v>> when set to v;
\* OrDefault is the ?? operator.
OrDefault(opt, d) == IF opt = <<>> THEN d ELSE opt[1]

-----------------------------------------------------------------------------
(* Strings *)

Last(s) == s[Len(s)]

Front(s) == SubSeq(s, 1, Len(s) - 1)

EndsWith(s, suf) ==
    /\ Len(suf) <= Len(s)
    /\ SubSeq(s, Len(s) - Len(suf) + 1, Len(s)) = suf

RECURSIVE SeqsUpTo(_, _)
SeqsUpTo(A, n) ==
    IF n = 0 THEN {<<>>}
    ELSE LET shorter == SeqsUpTo(A, n - 1)
         IN  shorter \cup {Append(s, c) : s \in shorter, c \in A}

Range(s) == {s[i] : i \in 1..Len(s)}

\* The subsequence of s at the indices in K, in order
RECURSIVE KeepFrom(_, _, _)
KeepFrom(s, K, k) ==
    IF k > Len(s) THEN <<>>
    ELSE (IF k \in K THEN <<s[k]>> ELSE <<>>) \o KeepFrom(s, K, k + 1)

Keep(s, K) == KeepFrom(s, K, 1)

-----------------------------------------------------------------------------
(* URLs *)

Url(o, p, h) == [origin |-> o, path |-> p, hash |-> h]

\* new URL(u): succeeds iff u is an absolute URL
Parses(u) == u.origin \notin {"", "!"}

\* new URL(href, baseUrl): a relative reference takes the base's origin
Resolves(href) == href.origin # "!"

Resolve(href, base) ==
    IF href.origin = "" THEN [href EXCEPT !.origin = base.origin] ELSE href

\* crawlSite's normalize: drop the fragment, remove ONE trailing slash from a
\* non-root path; a string that does not parse is returned unchanged.
NormalizeKeepSlash(u) ==
    IF ~Parses(u) THEN u ELSE [u EXCEPT !.hash = FALSE]

normalize(u) ==
    IF ~Parses(u) THEN u
    ELSE LET p == u.path
         IN  [u EXCEPT !.hash = FALSE,
                       !.path = IF p # <<"/">> /\ Len(p) > 0 /\ Last(p) = "/"
                                THEN Front(p) ELSE p]

-----------------------------------------------------------------------------
(* Path Filter: matchesPatterns *)

\* pattern.replace(/\*\*/g, ".*"): left to right, non-overlapping
RECURSIVE ReplaceDoubleStar(_)
ReplaceDoubleStar(p) ==
    IF Len(p) < 2 THEN p
    ELSE IF p[1] = "*" /\ p[2] = "*"
         THEN <<".", "*">> \o ReplaceDoubleStar(SubSeq(p, 3, Len(p)))
         ELSE <<p[1]>> \o ReplaceDoubleStar(Tail(p))

\* .replace(/\*/g, "[^/]*"): applied to the OUTPUT of the first replace, so
\* the "*" of a ".*" that the first replace produced is rewritten too
RECURSIVE ReplaceStar(_)
ReplaceStar(p) ==
    IF p = <<>> THEN <<>>
    ELSE IF p[1] = "*"
         THEN <<"[", "^", "/", "]", "*">> \o ReplaceStar(Tail(p))
         ELSE <<p[1]>> \o ReplaceStar(Tail(p))

\* A mutant: the second replace is skipped for the text the first produced
\* (the translation the glob semantics asks for)
RECURSIVE GlobToRegexOnePass(_)
GlobToRegexOnePass(p) ==
    IF p = <<>> THEN <<>>
    ELSE IF Len(p) >= 2 /\ p[1] = "*" /\ p[2] = "*"
         THEN <<".", "*">> \o GlobToRegexOnePass(SubSeq(p, 3, Len(p)))
         ELSE IF p[1] = "*"
              THEN <<"[", "^", "/", "]", "*">> \o GlobToRegexOnePass(Tail(p))
              ELSE <<p[1]>> \o GlobToRegexOnePass(Tail(p))

\* The body of the regular expression, between "^" and "$"
GlobToRegex(pattern) == ReplaceStar(ReplaceDoubleStar(pattern))

RegexSource(pattern) == <<"^">> \o GlobToRegex(pattern) \o <<"$">>

\* new RegExp(source), for the syntax the translation can produce: a sequence
\* of atoms, each a literal character, "." (any character) or the class
\* [^/], optionally followed by "*".
Atom(k, c, st) == [kind |-> k, ch |-> c, star |-> st]

RECURSIVE ParseAtoms(_)
ParseAtoms(s) ==
    IF s = <<>> THEN <<>>
    ELSE LET isClass == Len(s) >= 4 /\ SubSeq(s, 1, 4) = <<"[", "^", "/", "]">>
             n       == IF isClass THEN 4 ELSE 1
             kind    == IF isClass THEN "notslash"
                        ELSE IF s[1] = "." THEN "any" ELSE "lit"
             starred == Len(s) > n /\ s[n + 1] = "*"
             rest    == SubSeq(s, n + 1 + (IF starred THEN 1 ELSE 0), Len(s))
         IN  <<Atom(kind, s[1], starred)>> \o ParseAtoms(rest)

\* The source always starts with "^" and ends with "$": both anchors
Compile(src) == ParseAtoms(SubSeq(src, 2, Len(src) - 1))

AtomAccepts(a, c) ==
    CASE a.kind = "any"      -> TRUE
      [] a.kind = "notslash" -> c # "/"
      [] OTHER               -> c = a.ch

\* regex.test(pathname) for an anchored regex: a backtracking whole-string match
RECURSIVE MatchFrom(_, _, _, _)
MatchFrom(re, i, s, j) ==
    IF i > Len(re) THEN j > Len(s)
    ELSE IF re[i].star
         THEN \/ MatchFrom(re, i + 1, s, j)
              \/ /\ j <= Len(s)
                 /\ AtomAccepts(re[i], s[j])
                 /\ MatchFrom(re, i, s, j + 1)
         ELSE /\ j <= Len(s)
              /\ AtomAccepts(re[i], s[j])
              /\ MatchFrom(re, i + 1, s, j + 1)

RegexTest(src, s) == MatchFrom(Compile(src), 1, s, 1)

matchesPatterns(pathname, patterns) ==
    \E k \in 1..Len(patterns) : RegexTest(RegexSource(patterns[k]), pathname)

\* The glob semantics of the specification (the reference the claims compare
\* matchesPatterns with): "**" matches any sequence of characters, "*" any
\* sequence without "/", any other character itself; the whole pathname must
\* match.
RECURSIVE GlobMatch(_, _)
GlobMatch(pat, s) ==
    IF pat = <<>> THEN s = <<>>
    ELSE IF Len(pat) >= 2 /\ pat[1] = "*" /\ pat[2] = "*"
         THEN \E k \in 0..Len(s) :
                  GlobMatch(SubSeq(pat, 3, Len(pat)), SubSeq(s, k + 1, Len(s)))
         ELSE IF pat[1] = "*"
              THEN \E k \in 0..Len(s) :
                       /\ \A m \in 1..k : s[m] # "/"
                       /\ GlobMatch(Tail(pat), SubSeq(s, k + 1, Len(s)))
              ELSE /\ s # <<>>
                   /\ s[1] = pat[1]
                   /\ GlobMatch(Tail(pat), Tail(s))

GlobMatchesAny(pathname, patterns) ==
    \E k \in 1..Len(patterns) : GlobMatch(patterns[k], pathname)

-----------------------------------------------------------------------------
(* Link Extractor: extractLinks *)

\* The extensions of the asset regex (crawl.ts line 79)
AssetExts ==
    { <<"j","p","g">>, <<"j","p","e","g">>, <<"p","n","g">>, <<"g","i","f">>,
      <<"s","v","g">>, <<"w","e","b","p">>, <<"p","d","f">>, <<"z","i","p">>,
      <<"c","s","s">>, <<"j","s">>, <<"i","c","o">>, <<"w","o","f","f">>,
      <<"w","o","f","f","2">>, <<"t","t","f">>, <<"e","o","t">>,
      <<"m","p","3">>, <<"m","p","4">>, <<"a","v","i">> }

\* pathname.match(/\.(jpg|...)$/i)
IsAsset(path) == \E e \in AssetExts : EndsWith(path, <<".">> \o e)

\* [...new Set(links)]: the first occurrence of each link, in order
Dedup(s) == Keep(s, {i \in 1..Len(s) : \A j \in 1..(i - 1) : s[j] # s[i]})

\* resolved.hash = ""; resolved.href
Resolved(hrefs, pageUrl) ==
    [i \in 1..Len(hrefs) |-> [Resolve(hrefs[i], pageUrl) EXCEPT !.hash = FALSE]]

\* A mutant: links of any origin are kept
KeptAnyOrigin(hrefs, pageUrl) ==
    {i \in 1..Len(hrefs) :
        /\ Resolves(hrefs[i])
        /\ ~IsAsset(Resolve(hrefs[i], pageUrl).path)}

\* The loop over the anchors: an href that does not resolve is skipped, then
\* other origins and assets.
KeptLinks(hrefs, pageUrl) ==
    {i \in 1..Len(hrefs) :
        /\ Resolves(hrefs[i])
        /\ Resolve(hrefs[i], pageUrl).origin = pageUrl.origin
        /\ ~IsAsset(Resolve(hrefs[i], pageUrl).path)}

ResolvedLinks(hrefs, pageUrl) ==
    Keep(Resolved(hrefs, pageUrl), KeptLinks(hrefs, pageUrl))

\* html is the sequence of the href attributes of the page's anchors
extractLinks(html, pageUrl) == Dedup(ResolvedLinks(html, pageUrl))

-----------------------------------------------------------------------------
(* The web the crawler runs against *)

Lookup(f, k, d) == IF k \in DOMAIN f THEN f[k] ELSE d

Rel(p) == Url("", p, FALSE)          \* href="/p"
E(p) == Url("e", p, FALSE)           \* https://e.com/p
Other(p) == Url("o", p, FALSE)       \* https://other.com/p
Invalid == Url("!", <<>>, FALSE)     \* an href no URL parser accepts

PRoot == <<"/">>
PA == <<"/", "a">>
PASlash == <<"/", "a", "/">>
PASlash2 == <<"/", "a", "/", "/">>
PB == <<"/", "b">>
PC == <<"/", "c">>
PD == <<"/", "d">>
PU == <<"/", "u">>
PV == <<"/", "v">>
PLogo == <<"/", "l", ".", "p", "n", "g">>
PLogoSlash == <<"/", "l", ".", "p", "n", "g", "/">>
PSitemap == <<"/", "s", "i", "t", "e", "m", "a", "p", ".", "x", "m", "l">>
PSitemapIndex ==
    <<"/", "s", "i", "t", "e", "m", "a", "p", "_", "i", "n", "d", "e", "x",
      ".", "x", "m", "l">>
PS1 == <<"/", "s", "1">>
PS2 == <<"/", "s", "2">>
PS3 == <<"/", "s", "3">>

\* A sitemap document: the <sitemap><loc> entries and the <url><loc> entries
Doc(ch, ls) == [children |-> ch, locs |-> ls]

NoDocs == <<>>

\* Site 1: the page / links to /a, to another origin, to an asset, to an
\* unparsable href and to spellings of /a; /a links back to /.  No sitemap.
Site1 ==
    [ links |-> (PRoot :> << Rel(PA), Other(PB), Rel(PLogo), Invalid,
                             Url("", PA, TRUE), Rel(PASlash) >>)
             @@ (PA :> << Rel(PRoot), Rel(PB) >>),
      docs  |-> NoDocs ]

\* Site 2: a diamond (/a and /b both link to /c) and a chain / -> /a -> /c
\* -> /d -> /; /sitemap.xml lists pages directly, /sitemap_index.xml is an
\* index with URL entries of its own, a child holding a nested index entry,
\* a child whose <loc> is relative and a child that cannot be fetched.
Site2 ==
    [ links |-> (PRoot :> << Rel(PA), Rel(PB) >>)
             @@ (PA :> << Rel(PC) >>)
             @@ (PB :> << Rel(PC) >>)
             @@ (PC :> << Rel(PD) >>)
             @@ (PD :> << Rel(PRoot) >>),
      docs  |-> (PSitemap :> Doc(<<>>, << E(PA), E(PASlash), E(PC), E(PB),
                                             Other(PD) >>))
             @@ (PSitemapIndex :> Doc(<< E(PS1), E(PS2), Invalid >>, << E(PD) >>))
             @@ (PS1 :> Doc(<< E(PS3) >>, << E(PB) >>))
             @@ (PS2 :> Doc(<<>>, << Rel(PC), E(PD) >>))
             @@ (PS3 :> Doc(<<>>, << E(PD) >>)) ]

\* Site 3: / links to /a//, /a, /a/ and /l.png/ (an asset name followed by a
\* slash); /sitemap.xml exists and lists nothing.
Site3 ==
    [ links |-> (PRoot :> << Rel(PASlash2), Rel(PA), Rel(PASlash),
                             Rel(PLogoSlash) >>)
             @@ (PASlash :> << Rel(PB) >>),
      docs  |-> (PSitemap :> Doc(<<>>, <<>>)) ]

\* Site 4: /sitemap.xml is an index with a URL entry of its own and two
\* children, the second of which is not served; /sitemap_index.xml is a plain
\* sitemap.
Site4 ==
    [ links |-> (PRoot :> << Rel(PA) >>),
      docs  |-> (PSitemap :> Doc(<< E(PS1), E(PS2) >>, << E(PA) >>))
             @@ (PSitemapIndex :> Doc(<<>>, << E(PB) >>))
             @@ (PS1 :> Doc(<<>>, << E(PC) >>)) ]

\* Site 5: / links to /a, /b and /c; /u is two hops away through /c and three
\* hops away through /a and /d; /v is one hop behind /u.  No sitemap.
Site5 ==
    [ links |-> (PRoot :> << Rel(PA), Rel(PB), Rel(PC) >>)
             @@ (PA :> << Rel(PD) >>)
             @@ (PC :> << Rel(PU) >>)
             @@ (PD :> << Rel(PU) >>)
             @@ (PU :> << Rel(PV) >>),
      docs  |-> NoDocs ]

Sites == << Site1, Site2, Site3, Site4, Site5 >>

baseUrl == E(PRoot)

\* extractLinks(html, pageUrl) for every page of every site, tabulated
PageLinks ==
    [s \in 1..Len(Sites) |->
        [p \in DOMAIN Sites[s].links |-> extractLinks(Sites[s].links[p], E(p))]]

\* The include / exclude lists a run may be configured with
Pat1(p) == << p >>
FilterChoices ==
    { [include |-> <<>>, exclude |-> <<>>],
      [include |-> << <<"/">>, <<"/", "*">> >>, exclude |-> << PB >>],
      [include |-> <<>>, exclude |-> << <<"/", "*", "*">> >>],
      [include |-> << PA >>, exclude |-> <<>>] }

OptNat(n) == {<<>>} \cup {<<k>> : k \in 0..n}

Configs ==
    { [url |-> baseUrl, maxDepth |-> d, concurrency |-> c, sitemap |-> sm,
       include |-> f.include, exclude |-> f.exclude] :
        d \in OptNat(MaxDepthCfg), c \in OptNat(MaxConc),
        sm \in {<<>>, <<FALSE>>}, f \in FilterChoices }

-----------------------------------------------------------------------------
(* State of one crawlSite invocation *)

VARIABLES
    config,      \* the AgentReadyConfig (read-only)
    site,        \* index of the web site the run is against (read-only)
    phase,       \* "start", "sitemap", "seed", "crawl", "returned", "raised"
    smIdx,       \* parseSitemap: index of the candidate of the outer loop
    smStage,     \* parseSitemap: "candidate", "children" or "done"
    smChildren,  \* parseSitemap: the child sitemaps still to fetch
    urls,        \* parseSitemap: the urls list
    seedUrls,    \* crawlSite: seedUrls
    queue,       \* crawlSite: the frontier, a sequence of [url, depth]
    visited,     \* crawlSite: the visited set
    results,     \* crawlSite: the results list
    batch,       \* the units of the batch being awaited
    lpc,         \* the dispatch loop: "test" (loop head) or "await" (Promise.all)
    requests,    \* history: the sitemap URLs requested, in order
    fetched,     \* history: the URLs processUrl called fetchPage for, in order
    failed,      \* history: the URLs whose page fetch failed
    expanded,    \* history: the [url, depth] whose links were extracted
    call,        \* a call of a pure function: its arguments
    ret,         \* a call of a pure function: what it returned
    cpc,         \* a call of a pure function: "idle", "call" or "done"
    apc,         \* agentReady: where the call stands ("none": not called)
    pages,       \* agentReady: the pages list
    fs           \* agentReady: the directories and files created so far

vars == << config, site, phase, smIdx, smStage, smChildren, urls, seedUrls,
           queue, visited, results, batch, lpc, requests, fetched, failed,
           expanded, call, ret, cpc, apc, pages, fs >>

callVars == << call, ret, cpc >>
agentVars == << apc, pages, fs >>
smVars == << smIdx, smStage, smChildren, urls, requests >>
crawlVars == << queue, visited, results, batch, lpc, fetched, failed, expanded >>

maxDepth == OrDefault(config.maxDepth, DEFAULT_MAX_DEPTH)
concurrency == OrDefault(config.concurrency, DEFAULT_CONCURRENCY)

sitemapUrls == << E(PSitemap), E(PSitemapIndex) >>

\* What a successful fetch of a page returns: the hrefs of its anchors
Html(u) ==
    IF u.origin = "e" THEN Lookup(Sites[site].links, u.path, <<>>) ELSE <<>>

\* extractLinks(html, u) for the html of the page at u (a page of another
\* origin, or one the site does not describe, has no anchors)
LinksOf(u) ==
    IF u.origin = "e" /\ u.path \in DOMAIN Sites[site].links
    THEN PageLinks[site][u.path]
    ELSE extractLinks(<<>>, u)

\* A sitemap document can be fetched when the URL parses and the site serves it
HasDoc(u) == Parses(u) /\ u.origin = "e" /\ u.path \in DOMAIN Sites[site].docs
DocAt(u) == Sites[site].docs[u.path]

NoCall ==
    /\ call = <<>>
    /\ ret = <<>>
    /\ cpc = "idle"

\* crawlSite called on its own: there is no agentReady frame
NoAgent ==
    /\ apc = "none"
    /\ pages = <<>>
    /\ fs = {}

CrawlStart ==
    /\ smIdx = 1
    /\ smStage = "candidate"
    /\ smChildren = <<>>
    /\ urls = <<>>
    /\ seedUrls = <<>>
    /\ queue = <<>>
    /\ visited = {}
    /\ results = <<>>
    /\ batch = <<>>
    /\ lpc = "test"
    /\ requests = <<>>
    /\ fetched = <<>>
    /\ failed = {}
    /\ expanded = {}

Init ==
    /\ config \in Configs
    /\ site \in 1..Len(Sites)
    /\ phase = "start"
    /\ CrawlStart
    /\ NoCall
    /\ NoAgent

-----------------------------------------------------------------------------
(* crawlSite, lines 120-124: try the sitemap unless config.sitemap is false *)

SitemapEnabledAlways(cfg) == TRUE

SitemapEnabled(cfg) == cfg.sitemap # <<FALSE>>

Start ==
    /\ phase = "start"
    /\ phase' = IF SitemapEnabled(config) THEN "sitemap" ELSE "seed"
    /\ UNCHANGED << config, site, seedUrls >>
    /\ UNCHANGED smVars
    /\ UNCHANGED crawlVars
    /\ UNCHANGED callVars
    /\ UNCHANGED agentVars

-----------------------------------------------------------------------------
(* parseSitemap *)

\* A mutant: the loop over the candidates never breaks
NeverBreaks(u) == FALSE

\* Line 58: found a working sitemap
FoundWorkingSitemap(u) == Len(u) > 0

\* Line 58 and the head of the outer loop, with the urls list u: break when
\* u is not empty, else go to the next candidate; after the last one return.
EndCandidate(u) ==
    IF FoundWorkingSitemap(u) \/ smIdx = Len(sitemapUrls)
    THEN /\ phase' = "seed"
         /\ seedUrls' = u
         /\ smStage' = "done"
         /\ smIdx' = smIdx
    ELSE /\ phase' = phase
         /\ seedUrls' = seedUrls
         /\ smStage' = "candidate"
         /\ smIdx' = smIdx + 1

\* Lines 38-56: the candidate was fetched
CandidateOk ==
    /\ phase = "sitemap"
    /\ smStage = "candidate"
    /\ HasDoc(sitemapUrls[smIdx])
    /\ requests' = Append(requests, sitemapUrls[smIdx])
    /\ LET xml == DocAt(sitemapUrls[smIdx])
       IN  IF Len(xml.children) > 0
           THEN /\ smStage' = "children"
                /\ smChildren' = xml.children
                /\ UNCHANGED << urls, smIdx, phase, seedUrls >>
           ELSE /\ urls' = urls \o xml.locs
                /\ smChildren' = smChildren
                /\ EndCandidate(urls')
    /\ UNCHANGED << config, site >>
    /\ UNCHANGED crawlVars
    /\ UNCHANGED callVars
    /\ UNCHANGED agentVars

\* Line 59: the fetch of the candidate failed, try the next
CandidateFail ==
    /\ phase = "sitemap"
    /\ smStage = "candidate"
    /\ requests' = Append(requests, sitemapUrls[smIdx])
    /\ UNCHANGED << urls, smChildren >>
    /\ EndCandidate(urls)
    /\ UNCHANGED << config, site >>
    /\ UNCHANGED crawlVars
    /\ UNCHANGED callVars
    /\ UNCHANGED agentVars

\* Lines 47-49: a child sitemap was fetched; its <url><loc> entries are kept
ChildOk ==
    /\ phase = "sitemap"
    /\ smStage = "children"
    /\ HasDoc(Head(smChildren))
    /\ requests' = Append(requests, Head(smChildren))
    /\ urls' = urls \o DocAt(Head(smChildren)).locs
    /\ smChildren' = Tail(smChildren)
    /\ IF smChildren' = <<>>
       THEN EndCandidate(urls')
       ELSE UNCHANGED << phase, seedUrls, smStage, smIdx >>
    /\ UNCHANGED << config, site >>
    /\ UNCHANGED crawlVars
    /\ UNCHANGED callVars
    /\ UNCHANGED agentVars

\* A mutant: a child that cannot be fetched ends the loop over the children
AbortChildren(ch) == <<>>

\* Line 50: the catch block is empty, the loop goes on with the next child
ChildrenAfterFailure(ch) == Tail(ch)

\* Line 50: the fetch of a child failed, the child is skipped
ChildFail ==
    /\ phase = "sitemap"
    /\ smStage = "children"
    /\ requests' = Append(requests, Head(smChildren))
    /\ urls' = urls
    /\ smChildren' = ChildrenAfterFailure(smChildren)
    /\ IF smChildren' = <<>>
       THEN EndCandidate(urls')
       ELSE UNCHANGED << phase, seedUrls, smStage, smIdx >>
    /\ UNCHANGED << config, site >>
    /\ UNCHANGED crawlVars
    /\ UNCHANGED callVars
    /\ UNCHANGED agentVars

-----------------------------------------------------------------------------
(* crawlSite, lines 126-129: the initial queue *)

Entry(u, d) == [url |-> u, depth |-> d]

InitialQueue(seeds) ==
    IF Len(seeds) > 0
    THEN [i \in 1..Len(seeds) |-> Entry(seeds[i], 0)]
    ELSE << Entry(baseUrl, 0) >>

Seed ==
    /\ phase = "seed"
    /\ queue' = InitialQueue(seedUrls)
    /\ phase' = "crawl"
    /\ UNCHANGED << config, site, seedUrls, visited, results, batch, lpc,
                    fetched, failed, expanded >>
    /\ UNCHANGED smVars
    /\ UNCHANGED callVars
    /\ UNCHANGED agentVars

-----------------------------------------------------------------------------
(* processUrl *)

\* Lines 138-144, with the glob semantics of the specification in place of
\* matchesPatterns (what the filter is documented to decide)
GlobFilter(pathname, cfg) ==
    /\ (Len(cfg.include) > 0 => GlobMatchesAny(pathname, cfg.include))
    /\ (Len(cfg.exclude) > 0 => ~GlobMatchesAny(pathname, cfg.exclude))

\* A mutant: the exclude list is not consulted
PassesIncludeOnly(pathname, cfg) ==
    Len(cfg.include) > 0 => matchesPatterns(pathname, cfg.include)

\* Lines 138-144: the include / exclude filter
PassesFilter(pathname, cfg) ==
    /\ (Len(cfg.include) > 0 => matchesPatterns(pathname, cfg.include))
    /\ (Len(cfg.exclude) > 0 => ~matchesPatterns(pathname, cfg.exclude))

\* PassesFilter for every filter configuration and every pathname that
\* occurs in a site, tabulated
SitePaths ==
    UNION { { Resolve(h, baseUrl).path, normalize(Resolve(h, baseUrl)).path } :
            h \in UNION { UNION { Range(Sites[s].links[p]) : p \in DOMAIN Sites[s].links }
                          \cup UNION { Range(Sites[s].docs[p].locs) : p \in DOMAIN Sites[s].docs }
                          \cup {baseUrl} : s \in 1..Len(Sites) } }

FilterTable ==
    [f \in FilterChoices |-> [p \in SitePaths |-> PassesFilter(p, f)]]

Filtered(pathname, cfg) ==
    LET f == [include |-> cfg.include, exclude |-> cfg.exclude]
    IN  IF f \in FilterChoices /\ pathname \in SitePaths
        THEN ~FilterTable[f][pathname]
        ELSE ~PassesFilter(pathname, cfg)

Unit(e, n, st) == [url |-> e.url, norm |-> n, depth |-> e.depth, st |-> st]

\* A mutant: the visited set is not consulted
SyncStateNoVisited(e, vis) ==
    LET normalized == normalize(e.url)
    IN  IF ~Parses(normalized) THEN "threw"
        ELSE IF Filtered(normalized.path, config) THEN "filtered"
        ELSE "fetching"

\* Lines 132-147, up to the first await: where the unit for entry e stands
\* when processUrl suspends or returns.  "skipped": already visited;
\* "threw": new URL(normalized) raised outside the try block; "filtered":
\* rejected by include / exclude; "fetching": fetchPage was called.
SyncState(e, vis) ==
    LET normalized == normalize(e.url)
    IN  IF normalized \in vis THEN "skipped"
        ELSE IF ~Parses(normalized) THEN "threw"
        ELSE IF Filtered(normalized.path, config) THEN "filtered"
        ELSE "fetching"

\* A mutant: every unit of a batch checks the visited set as it was when the
\* batch was formed
VisitedBeforeStale(entries, vis, i) == vis

\* The visited set the i-th entry of a batch sees: batch.map(processUrl) runs
\* the synchronous parts one after the other, in batch order, and each marks
\* its normalized URL (line 134) before the next one starts
VisitedBefore(entries, vis, i) ==
    vis \cup { normalize(entries[k].url) : k \in 1..(i - 1) }

RunBatch(entries, vis) ==
    SubSeq([i \in 1..Len(entries) |->
               Unit(entries[i], normalize(entries[i].url),
                    SyncState(entries[i], VisitedBefore(entries, vis, i)))],
           1, Len(entries))

Min(a, b) == IF a < b THEN a ELSE b

\* A mutant: the whole frontier is taken as one batch
BatchSizeAll(q, c) == Len(q)

\* queue.splice(0, concurrency) removes min(concurrency, queue.length) entries
BatchSize(q, c) == Min(c, Len(q))

\* The URLs fetchPage is called for, in batch order
FetchingNorms(units) ==
    Keep([i \in 1..Len(units) |-> units[i].norm],
         {i \in 1..Len(units) : units[i].st = "fetching"})

\* Lines 165-167: one iteration of the while loop up to the await
Dispatch ==
    /\ phase = "crawl"
    /\ lpc = "test"
    /\ Len(queue) > 0
    /\ LET n == BatchSize(queue, concurrency)
       IN  /\ batch' = RunBatch(SubSeq(queue, 1, n), visited)
           /\ queue' = SubSeq(queue, n + 1, Len(queue))
           /\ visited' = VisitedBefore(queue, visited, n + 1)
    /\ fetched' = fetched \o FetchingNorms(batch')
    /\ phase' = IF \E i \in 1..Len(batch') : batch'[i].st = "threw"
                THEN "raised" ELSE "crawl"
    /\ lpc' = "await"
    /\ UNCHANGED << config, site, seedUrls, results, failed, expanded >>
    /\ UNCHANGED smVars
    /\ UNCHANGED callVars
    /\ UNCHANGED agentVars

\* A mutant: links are followed although the frontier was seeded from a sitemap
FollowsLinksIgnoringSeeds(depth) == depth < maxDepth

\* A mutant: the depth test is off by one
FollowsLinksOffByOne(depth) == depth <= maxDepth /\ Len(seedUrls) = 0

\* Line 151
FollowsLinks(depth) == depth < maxDepth /\ Len(seedUrls) = 0

\* Lines 153-157: the links not yet visited, each at depth + 1
NewEntries(links, depth, vis) ==
    Keep([i \in 1..Len(links) |-> Entry(links[i], depth + 1)],
         {i \in 1..Len(links) : normalize(links[i]) \notin vis})

\* A mutant: discovered links go to the front of the frontier
EnqueueFront(q, es) == es \o q

\* Line 155: queue.push appends behind the entries already waiting
Enqueue(q, es) == q \o es

\* Lines 147-158: the fetch of unit i succeeded
FetchOk(i) ==
    /\ phase = "crawl"
    /\ lpc = "await"
    /\ batch[i].st = "fetching"
    /\ LET u    == batch[i]
           html == Html(u.norm)
       IN  /\ results' = Append(results, [url |-> u.norm, html |-> html])
           /\ IF FollowsLinks(u.depth)
              THEN /\ queue' = Enqueue(queue, NewEntries(LinksOf(u.norm),
                                                          u.depth, visited))
                   /\ expanded' = expanded \cup {Entry(u.norm, u.depth)}
              ELSE UNCHANGED << queue, expanded >>
    /\ batch' = [batch EXCEPT ![i].st = "ok"]
    /\ UNCHANGED << config, site, phase, seedUrls, visited, lpc, fetched, failed >>
    /\ UNCHANGED smVars
    /\ UNCHANGED callVars
    /\ UNCHANGED agentVars

\* A mutant: a failed fetch is not caught
PhaseAfterFailureUncaught == "raised"

\* Lines 159-161: the catch block swallows the failure
PhaseAfterFailure == phase

\* A mutant: a URL whose fetch failed is forgotten, so that it can be retried
VisitedForgetsFailure(vis, u) == vis \ {u}

\* Lines 159-161: the catch block leaves the visited set as it is
VisitedAfterFailure(vis, u) == vis

\* Lines 147, 159-161: the fetch of unit i failed
FetchFail(i) ==
    /\ phase = "crawl"
    /\ lpc = "await"
    /\ batch[i].st = "fetching"
    /\ batch' = [batch EXCEPT ![i].st = "failed"]
    /\ failed' = failed \cup {batch[i].norm}
    /\ phase' = PhaseAfterFailure
    /\ visited' = VisitedAfterFailure(visited, batch[i].norm)
    /\ UNCHANGED << config, site, seedUrls, queue, results, lpc, fetched,
                    expanded >>
    /\ UNCHANGED smVars
    /\ UNCHANGED callVars
    /\ UNCHANGED agentVars

InFlight == {i \in 1..Len(batch) : batch[i].st = "fetching"}

\* Line 167: Promise.all resolves once every unit of the batch has finished
Join ==
    /\ phase = "crawl"
    /\ lpc = "await"
    /\ InFlight = {}
    /\ lpc' = "test"
    /\ batch' = <<>>
    /\ UNCHANGED << config, site, phase, seedUrls, queue, visited, results,
                    fetched, failed, expanded >>
    /\ UNCHANGED smVars
    /\ UNCHANGED callVars
    /\ UNCHANGED agentVars

\* Lines 165, 170: the frontier is empty at the loop head
Return ==
    /\ phase = "crawl"
    /\ lpc = "test"
    /\ Len(queue) = 0
    /\ phase' = "returned"
    /\ UNCHANGED << config, site, seedUrls >>
    /\ UNCHANGED smVars
    /\ UNCHANGED crawlVars
    /\ UNCHANGED callVars
    /\ UNCHANGED agentVars

FetchOkSome == \E i \in 1..Len(batch) : FetchOk(i)
FetchFailSome == \E i \in 1..Len(batch) : FetchFail(i)

Next ==
    \/ Start
    \/ CandidateOk
    \/ CandidateFail
    \/ ChildOk
    \/ ChildFail
    \/ Seed
    \/ Dispatch
    \/ FetchOkSome
    \/ FetchFailSome
    \/ Join
    \/ Return

Spec == Init /\ [][Next]_vars

\* The event loop runs whatever is ready, and every fetch completes or fails
FairSpec == Spec /\ WF_vars(Next)

-----------------------------------------------------------------------------
(* matchesPatterns as a pure function: calls on bounded inputs *)

PatAlphabet == {"/", "a", "*"}
PathAlphabet == {"/", "a", "b"}

\* A pathname always starts with "/"
GlobPaths == { <<"/">> \o t : t \in SeqsUpTo(PathAlphabet, MaxPathLen - 1) }
GlobPatterns == SeqsUpTo(PatAlphabet, MaxPatLen)
GlobPatternLists ==
    {<<>>} \cup { <<p>> : p \in GlobPatterns }
           \cup { <<PA, p>> : p \in GlobPatterns }

\* The patterns and pathnames of the specification's examples
GDocs == <<"/", "d", "o", "c", "s">>
GDocsAll == GDocs \o <<"/", "*", "*">>                         \* /docs/**
GDocsAB == GDocs \o <<"/", "a", "/", "b">>                     \* /docs/a/b
GDocsX == GDocs \o <<"x">>                                     \* /docsx
GInternal == GDocs \o <<"/", "i", "n", "t", "e", "r", "n", "a", "l">>
GInternalAll == GInternal \o <<"/", "*", "*">>                 \* /docs/internal/**
GInternalX == GInternal \o <<"/", "x">>                        \* /docs/internal/x
GBlog == <<"/", "b", "l", "o", "g">>
GBlogStar == GBlog \o <<"/", "*">>                             \* /blog/*
GBlogPost == GBlog \o <<"/", "p", "o", "s", "t", "1">>         \* /blog/post1
GBlogComments == GBlogPost \o <<"/", "c", "o", "m", "m", "e", "n", "t", "s">>

MatchCall(p, ps) == [pathname |-> p, patterns |-> ps]

ExampleCalls ==
    { MatchCall(p, <<GDocsAll>>) : p \in {GDocsAB, GDocs, GDocsX, GInternalX} }
    \cup { MatchCall(GInternalX, <<GInternalAll>>) }
    \cup { MatchCall(p, <<GBlogStar>>) : p \in {GBlogPost, GBlogComments} }

IdleConfig ==
    [url |-> baseUrl, maxDepth |-> <<>>, concurrency |-> <<>>, sitemap |-> <<>>,
     include |-> <<>>, exclude |-> <<>>]

InitGlob ==
    /\ call \in { MatchCall(p, ps) : p \in GlobPaths, ps \in GlobPatternLists }
                \cup ExampleCalls
    /\ ret = <<>>
    /\ cpc = "call"
    /\ config = IdleConfig
    /\ site = 1
    /\ phase = "idle"
    /\ CrawlStart
    /\ NoAgent

CallMatchesPatterns ==
    /\ cpc = "call"
    /\ ret' = << matchesPatterns(call.pathname, call.patterns) >>
    /\ cpc' = "done"
    /\ UNCHANGED << config, site, phase, seedUrls, call >>
    /\ UNCHANGED smVars
    /\ UNCHANGED crawlVars
    /\ UNCHANGED agentVars

NextGlob == CallMatchesPatterns

SpecGlob == InitGlob /\ [][NextGlob]_vars

-----------------------------------------------------------------------------
(* normalize as a pure function: calls on bounded inputs, applied twice *)

NormAlphabet == {"/", "a"}
NormOrigins == {"e", "o", "", "!"}

\* Pathnames of up to MaxPathLen + 1 characters, "/a//" among them
NormPaths == { <<"/">> \o t : t \in SeqsUpTo(NormAlphabet, MaxPathLen) }
NormUrls == { Url(o, p, h) : o \in NormOrigins, p \in NormPaths, h \in BOOLEAN }

InitNorm ==
    /\ call \in NormUrls
    /\ ret = <<>>
    /\ cpc = "call"
    /\ config = IdleConfig
    /\ site = 1
    /\ phase = "idle"
    /\ CrawlStart
    /\ NoAgent

\* normalize(u)
CallNormalize ==
    /\ cpc = "call"
    /\ ret' = << normalize(call) >>
    /\ cpc' = "normalized"
    /\ UNCHANGED << config, site, phase, seedUrls, call >>
    /\ UNCHANGED smVars
    /\ UNCHANGED crawlVars
    /\ UNCHANGED agentVars

\* normalize applied to what normalize returned
CallNormalizeAgain ==
    /\ cpc = "normalized"
    /\ ret' = Append(ret, normalize(ret[1]))
    /\ cpc' = "renormalized"
    /\ UNCHANGED << config, site, phase, seedUrls, call >>
    /\ UNCHANGED smVars
    /\ UNCHANGED crawlVars
    /\ UNCHANGED agentVars

NextNorm ==
    \/ CallNormalize
    \/ CallNormalizeAgain

SpecNorm == InitNorm /\ [][NextNorm]_vars

-----------------------------------------------------------------------------
(* agentReady (src/src/index.ts): crawl or read a directory, extract the    *)
(* pages, write the output files                                            *)

\* config.url not given (undefined or the empty string: both are falsy)
NoUrl == Url("", <<>>, FALSE)
Truthy(u) == u # NoUrl

DotHtml == <<".", "h", "t", "m", "l">>
DotHtm == <<".", "h", "t", "m">>
SlashIndex == <<"/", "i", "n", "d", "e", "x">>
PIndexHtml == SlashIndex \o DotHtml
PAHtml == PA \o DotHtml

\* path.replace(/\.html?$/, "")
StripHtmlExt(p) ==
    IF EndsWith(p, DotHtml) THEN SubSeq(p, 1, Len(p) - Len(DotHtml))
    ELSE IF EndsWith(p, DotHtm) THEN SubSeq(p, 1, Len(p) - Len(DotHtm))
    ELSE p

\* extractPage, lines 76-81 of the extractor: the page path of a URL
PagePath(pathname) ==
    LET p1 == IF pathname = <<"/">> THEN SlashIndex ELSE pathname
        p2 == IF Len(p1) > 0 /\ Last(p1) = "/" THEN Front(p1) ELSE p1
    IN  StripHtmlExt(p2)

\* extractLocalFile, line 112: .replace(/\.html?$/, "").replace(/\/index$/, "/")
LocalPagePath(rel) ==
    LET p == StripHtmlExt(rel)
    IN  IF EndsWith(p, SlashIndex)
        THEN SubSeq(p, 1, Len(p) - Len(SlashIndex)) \o <<"/">>
        ELSE p

PageOf(u, path) == [url |-> u, path |-> path]

\* The local directories config.dir can name: whether the directory exists
\* and the files below it (paths relative to it)
Dirs ==
    << [exists |-> TRUE, files |-> << PIndexHtml, PLogo, PAHtml >>],
       [exists |-> TRUE, files |-> << PLogo >>],
       [exists |-> FALSE, files |-> <<>>] >>

\* walkDir, line 19: the files whose extension is .html or .htm
IsHtmlFile(f) == EndsWith(f, DotHtml) \/ EndsWith(f, DotHtm)

walkDir(d) == Keep(d.files, {i \in 1..Len(d.files) : IsHtmlFile(d.files[i])})

\* The order localeCompare puts the characters of the paths in
Collation ==
    << "_", "/", ".", "1", "2", "3", "a", "b", "c", "d", "e", "g", "h", "i",
       "l", "m", "n", "p", "s", "t", "u", "v", "x" >>

Rank(c) == CHOOSE k \in 1..Len(Collation) : Collation[k] = c

\* a.localeCompare(b) < 0
RECURSIVE PathLess(_, _)
PathLess(a, b) ==
    IF b = <<>> THEN FALSE
    ELSE IF a = <<>> THEN TRUE
    ELSE IF a[1] = b[1] THEN PathLess(Tail(a), Tail(b))
    ELSE Rank(a[1]) < Rank(b[1])

IsIndexPath(path) == path = <<"/">> \/ path = SlashIndex

\* Lines 58-62: the index page first, the others by path (a stable sort)
RECURSIVE InsertPage(_, _)
InsertPage(pg, sorted) ==
    IF sorted = <<>> THEN <<pg>>
    ELSE IF PathLess(pg.path, Head(sorted).path)
         THEN <<pg>> \o sorted
         ELSE <<Head(sorted)>> \o InsertPage(pg, Tail(sorted))

RECURSIVE SortByPath(_)
SortByPath(ps) ==
    IF ps = <<>> THEN <<>>
    ELSE InsertPage(Last(ps), SortByPath(Front(ps)))

SortPages(ps) ==
    Keep(ps, {i \in 1..Len(ps) : IsIndexPath(ps[i].path)})
    \o SortByPath(Keep(ps, {i \in 1..Len(ps) : ~IsIndexPath(ps[i].path)}))

\* What agentReady creates: directories and files, named relative to outDir
FsDir(path) == [kind |-> "dir", path |-> path]
FsFile(path) == [kind |-> "file", path |-> path]

OutDir == <<>>
LlmsTxt == <<"l", "l", "m", "s", ".", "t", "x", "t">>
LlmsCtx == <<"l", "l", "m", "s", "-", "c", "t", "x", ".", "t", "x", "t">>
HtmlMd == <<".", "h", "t", "m", "l", ".", "m", "d">>

\* Lines 83-85
MdPath(pg) ==
    IF IsIndexPath(pg.path) THEN <<"i", "n", "d", "e", "x">> \o HtmlMd
    ELSE (IF Len(pg.path) > 0 /\ pg.path[1] = "/" THEN Tail(pg.path) ELSE pg.path)
         \o HtmlMd

\* join(fullPath, ".."): the directory of a file, relative to outDir
DirName(f) ==
    LET slashes == {i \in 1..Len(f) : f[i] = "/"}
    IN  IF slashes = {} THEN OutDir
        ELSE SubSeq(f, 1, (CHOOSE i \in slashes : \A j \in slashes : j <= i) - 1)

\* Lines 82-89 for the first n pages
PageWrites(ps, n) ==
    UNION { { FsDir(DirName(MdPath(ps[i]))), FsFile(MdPath(ps[i])) } : i \in 1..n }

\* Lines 72-79: llms.txt unless config.llmsTxt is false, llms-ctx.txt unless
\* config.llmsCtx is false (generateLlmsCtx never returns an empty string)
IndexWrites(cfg) ==
    (IF cfg.llmsTxt # <<FALSE>> THEN {FsFile(LlmsTxt)} ELSE {})
    \cup (IF cfg.llmsCtx # <<FALSE>> THEN {FsFile(LlmsCtx)} ELSE {})

\* The configurations agentReady is called with: a URL (and then the crawl
\* settings), a directory, or neither
AgentCrawlConfigs ==
    { c \in Configs : c.maxDepth = <<1>> /\ c.concurrency = <<2>> }

AgentConfigs ==
    { [url |-> c.url, dir |-> <<>>, sitemap |-> c.sitemap,
       include |-> c.include, exclude |-> c.exclude,
       maxDepth |-> c.maxDepth, concurrency |-> c.concurrency,
       llmsTxt |-> o, llmsCtx |-> o] :
        c \in AgentCrawlConfigs, o \in {<<>>, <<FALSE>>} }
    \cup
    { [url |-> NoUrl, dir |-> d, sitemap |-> <<>>,
       include |-> <<>>, exclude |-> <<>>,
       maxDepth |-> <<>>, concurrency |-> <<>>,
       llmsTxt |-> t, llmsCtx |-> x] :
        d \in {<<>>} \cup {<<k>> : k \in 1..Len(Dirs)},
        t \in {<<>>, <<FALSE>>}, x \in {<<>>, <<FALSE>>} }

InitAgent ==
    /\ config \in AgentConfigs
    /\ site \in 1..Len(Sites)
    /\ ~Truthy(config.url) => site = 1
    /\ phase = "idle"
    /\ CrawlStart
    /\ NoCall
    /\ apc = "entry"
    /\ pages = <<>>
    /\ fs = {}

\* Lines 28-33, 39-42, 49-50: crawl when a URL is given, else read the
\* directory when one is given, else throw
AgentEntry ==
    /\ apc = "entry"
    /\ IF Truthy(config.url) THEN apc' = "crawl" /\ phase' = "start"
       ELSE IF config.dir # <<>> THEN apc' = "walk" /\ phase' = phase
       ELSE apc' = "error_input" /\ phase' = phase
    /\ UNCHANGED << config, site, seedUrls, pages, fs >>
    /\ UNCHANGED smVars
    /\ UNCHANGED crawlVars
    /\ UNCHANGED callVars

\* Lines 33-38: crawlSite returned; extractPage gives a page or null for each
\* result (K: the results with extractable content)
AgentCrawled ==
    /\ apc = "crawl"
    /\ phase = "returned"
    /\ \E K \in SUBSET (1..Len(results)) :
           pages' = Keep([i \in 1..Len(results) |->
                              PageOf(results[i].url, PagePath(results[i].url.path))], K)
    /\ apc' = "check"
    /\ UNCHANGED << config, site, phase, seedUrls, fs >>
    /\ UNCHANGED smVars
    /\ UNCHANGED crawlVars
    /\ UNCHANGED callVars

\* Line 33: crawlSite rejected, and so does agentReady
AgentCrawlRejected ==
    /\ apc = "crawl"
    /\ phase = "raised"
    /\ apc' = "error_crawl"
    /\ UNCHANGED << config, site, phase, seedUrls, pages, fs >>
    /\ UNCHANGED smVars
    /\ UNCHANGED crawlVars
    /\ UNCHANGED callVars

\* Lines 41-48: the directory was read; extractLocalFile gives a page or null
\* for each HTML file
AgentWalkOk ==
    /\ apc = "walk"
    /\ Dirs[config.dir[1]].exists
    /\ LET files == walkDir(Dirs[config.dir[1]])
       IN  \E K \in SUBSET (1..Len(files)) :
               pages' = Keep([i \in 1..Len(files) |->
                                  PageOf(Url("", files[i], FALSE),
                                         LocalPagePath(files[i]))], K)
    /\ apc' = "check"
    /\ UNCHANGED << config, site, phase, seedUrls, fs >>
    /\ UNCHANGED smVars
    /\ UNCHANGED crawlVars
    /\ UNCHANGED callVars

\* Line 13: readdirSync throws for a directory that does not exist
AgentWalkFail ==
    /\ apc = "walk"
    /\ ~Dirs[config.dir[1]].exists
    /\ apc' = "error_walk"
    /\ UNCHANGED << config, site, phase, seedUrls, pages, fs >>
    /\ UNCHANGED smVars
    /\ UNCHANGED crawlVars
    /\ UNCHANGED callVars

\* A mutant: an empty pages list is not an error
NeverThrowsOnNoPages(ps) == FALSE

\* Line 53
ThrowsOnNoPages(ps) == Len(ps) = 0

\* Lines 53-66: throw when there is no page, else sort and generate
AgentCheck ==
    /\ apc = "check"
    /\ IF ThrowsOnNoPages(pages)
       THEN apc' = "error_nopages" /\ pages' = pages
       ELSE apc' = "mkdir" /\ pages' = SortPages(pages)
    /\ UNCHANGED << config, site, phase, seedUrls, fs >>
    /\ UNCHANGED smVars
    /\ UNCHANGED crawlVars
    /\ UNCHANGED callVars

\* Line 69: mkdirSync(outDir)
AgentMkdir ==
    /\ apc = "mkdir"
    /\ fs' = fs \cup {FsDir(OutDir)}
    /\ apc' = "index"
    /\ UNCHANGED << config, site, phase, seedUrls, pages >>
    /\ UNCHANGED smVars
    /\ UNCHANGED crawlVars
    /\ UNCHANGED callVars

\* Lines 72-79: llms.txt and llms-ctx.txt
AgentWriteIndexFiles ==
    /\ apc = "index"
    /\ fs' = fs \cup IndexWrites(config)
    /\ apc' = "pages"
    /\ UNCHANGED << config, site, phase, seedUrls, pages >>
    /\ UNCHANGED smVars
    /\ UNCHANGED crawlVars
    /\ UNCHANGED callVars

\* Lines 82-91: one .md file per page, then return
AgentWritePages ==
    /\ apc = "pages"
    /\ fs' = fs \cup PageWrites(pages, Len(pages))
    /\ apc' = "done"
    /\ UNCHANGED << config, site, phase, seedUrls, pages >>
    /\ UNCHANGED smVars
    /\ UNCHANGED crawlVars
    /\ UNCHANGED callVars

\* Lines 69-88: mkdirSync or writeFileSync throws; what was written before
\* stays (in the page loop: the files of the first n pages)
AgentIoFail ==
    /\ apc \in {"mkdir", "index", "pages"}
    /\ IF apc = "pages"
       THEN \E n \in 0..(Len(pages) - 1) : fs' = fs \cup PageWrites(pages, n)
       ELSE fs' = fs
    /\ apc' = "error_io"
    /\ UNCHANGED << config, site, phase, seedUrls, pages >>
    /\ UNCHANGED smVars
    /\ UNCHANGED crawlVars
    /\ UNCHANGED callVars

NextAgent ==
    \/ AgentEntry
    \/ Next
    \/ AgentCrawled
    \/ AgentCrawlRejected
    \/ AgentWalkOk
    \/ AgentWalkFail
    \/ AgentCheck
    \/ AgentMkdir
    \/ AgentWriteIndexFiles
    \/ AgentWritePages
    \/ AgentIoFail

SpecAgent == InitAgent /\ [][NextAgent]_vars

-----------------------------------------------------------------------------
(* Claims *)

ResultUrls == { results[i].url : i \in 1..Len(results) }
FetchedUrls == Range(fetched)
Crawling == phase \in {"crawl", "returned", "raised"}

\* C1: the result list never holds two entries with the same normalized URL
\* (the url field of a result is the normalized URL processUrl keyed on).
C1_NoDuplicateResults ==
    \A i, j \in 1..Len(results) : i # j => results[i].url # results[j].url

\* C1's case: a frontier entry was skipped as already visited while the
\* result for its normalized URL is in the list, next to another result.
C1_Witness ==
    /\ Len(results) >= 2
    /\ \E i \in 1..Len(batch) :
           /\ batch[i].st = "skipped"
           /\ batch[i].norm \in ResultUrls

\* C2: at every moment the number of page fetches in flight is at most the
\* configured concurrency (5 when not configured).
C2_InFlightBounded == Cardinality(InFlight) <= concurrency

\* C2's case: concurrency 2, a frontier seeded with 5 URLs, two fetches in
\* flight while entries are still waiting in the frontier.
C2_Witness ==
    /\ config.concurrency = <<2>>
    /\ Len(seedUrls) = 5
    /\ Cardinality(InFlight) = 2
    /\ Len(queue) > 0

\* C3: for every config and every finite link graph, when every fetch
\* completes or fails, crawlSite eventually leaves the dispatch loop.  Stated
\* so that a run ended by the exception of C7 does not count against it: a
\* violation is a run that stays in the loop forever.
C3_Terminates == <>(phase \in {"returned", "raised"})

SeedNorms == { normalize(seedUrls[k]) : k \in 1..Len(seedUrls) }

\* C4: when the sitemap gave N >= 1 URLs, no link is ever extracted or
\* enqueued, the frontier only shrinks, at most N distinct URLs are fetched
\* and every fetched or returned URL is the normalization of a sitemap URL.
C4_SitemapIsAuthoritative ==
    /\ [](Len(seedUrls) > 0 =>
            /\ expanded = {}
            /\ Cardinality(FetchedUrls) <= Len(seedUrls)
            /\ FetchedUrls \subseteq SeedNorms
            /\ ResultUrls \subseteq SeedNorms)
    /\ [][Len(seedUrls) > 0 /\ phase = "crawl" => Len(queue') <= Len(queue)]_vars

\* C4's case: a sitemap-seeded crawl returned a page whose links lead to a
\* URL that was never visited.
C4_Witness ==
    /\ Len(seedUrls) > 0
    /\ phase = "returned"
    /\ \E i \in 1..Len(results) :
           \E l \in Range(LinksOf(results[i].url)) : normalize(l) \notin visited

\* The URLs within k link hops of the base URL
LinkTargets(v) == { normalize(l) : l \in Range(LinksOf(v)) }

RECURSIVE WithinHops(_)
WithinHops(k) ==
    IF k = 0 THEN {normalize(baseUrl)}
    ELSE LET R == WithinHops(k - 1)
         IN  R \cup UNION { LinkTargets(v) : v \in R }

\* C5: without sitemap URLs every frontier entry has depth <= maxDepth, no
\* page more than maxDepth hops from the base URL is fetched, and links are
\* enqueued only from a page processed at depth < maxDepth, each at depth + 1.
C5_DepthBounded ==
    /\ [](Len(seedUrls) = 0 =>
            /\ \A k \in 1..Len(queue) : queue[k].depth <= maxDepth
            /\ \A i \in 1..Len(batch) : batch[i].depth <= maxDepth
            /\ FetchedUrls \subseteq WithinHops(maxDepth)
            /\ \A x \in expanded : x.depth < maxDepth)
    /\ [][Len(seedUrls) = 0 /\ phase = "crawl" /\ Len(queue') > Len(queue) =>
            \E i \in 1..Len(batch) :
                /\ batch[i].st = "fetching"
                /\ batch'[i].st = "ok"
                /\ batch[i].depth < maxDepth
                /\ \A k \in (Len(queue) + 1)..Len(queue') :
                       queue'[k].depth = batch[i].depth + 1]_vars

\* C5's case: a link-following crawl returned after fetching a page at depth
\* maxDepth >= 1 whose links lead to a URL beyond maxDepth hops.
C5_Witness ==
    /\ Len(seedUrls) = 0
    /\ phase = "returned"
    /\ maxDepth >= 1
    /\ \E i \in 1..Len(results) :
           /\ results[i].url \notin WithinHops(maxDepth - 1)
           /\ LinkTargets(results[i].url) \ WithinHops(maxDepth) # {}

\* Nothing that was put in the frontier is dropped: it is still waiting or
\* its normalized URL has been processed.
NoEntryLost ==
    Crawling =>
        /\ \A k \in 1..Len(InitialQueue(seedUrls)) :
               \/ normalize(InitialQueue(seedUrls)[k].url) \in visited
               \/ InitialQueue(seedUrls)[k] \in Range(queue)
        /\ \A x \in expanded : \A l \in Range(LinksOf(x.url)) :
               \/ normalize(l) \in visited
               \/ Entry(l, x.depth + 1) \in Range(queue)

FetchFailedAt(i) ==
    /\ i \in 1..Len(batch)
    /\ batch[i].st = "fetching"
    /\ batch'[i].st = "failed"

\* C6: a failed page fetch adds no result and no link, is not propagated
\* (the crawl goes on: the step changes nothing but the status of its own
\* unit), and the other entries of the batch and of the frontier are kept to
\* be processed.
C6_FetchFailureIsLocal ==
    /\ [](\A u \in failed :
              /\ u \notin ResultUrls
              /\ \A x \in expanded : x.url # u)
    /\ []NoEntryLost
    /\ [][\A i \in 1..Len(batch) : FetchFailedAt(i) =>
              /\ results' = results
              /\ queue' = queue
              /\ visited' = visited
              /\ phase' = phase
              /\ phase' = "crawl"
              /\ Len(batch') = Len(batch)
              /\ \A j \in 1..Len(batch) : j # i => batch'[j] = batch[j]]_vars

\* C6's case: in one batch a fetch failed and another succeeded, with
\* entries still waiting in the frontier.
C6_Witness ==
    /\ phase = "crawl"
    /\ Len(queue) > 0
    /\ \E i, j \in 1..Len(batch) : batch[i].st = "failed" /\ batch[j].st = "ok"

\* C7: crawlSite never raises, whatever the sitemap and the pages hold.
C7_NeverRaises == phase # "raised"

\* C8: a page fetch is issued only for a URL whose normalized path passes the
\* filter: it matches an include pattern (when there are any) and no exclude
\* pattern, patterns being the globs of the specification.
C8_FetchOnlyIfFilterPasses ==
    \A u \in FetchedUrls : GlobFilter(u.path, config)

\* C9: matchesPatterns(pathname, patterns) equals the reference glob matcher.
C9_MatchesReference ==
    cpc = "done" => ret[1] = GlobMatchesAny(call.pathname, call.patterns)

\* C10: with the single pattern /docs/**, matchesPatterns is true for
\* /docs/a/b, true for /docs and false for /docsx.
C10_DocsExamples ==
    cpc = "done" /\ call.patterns = <<GDocsAll>> =>
        /\ call.pathname = GDocsAB => ret[1] = TRUE
        /\ call.pathname = GDocs => ret[1] = TRUE
        /\ call.pathname = GDocsX => ret[1] = FALSE

\* C11: normalize is idempotent: for every URL u, also one whose path ends in
\* more than one slash, normalize(normalize(u)) = normalize(u).
C11_NormalizeIdempotent ==
    cpc = "renormalized" => ret[2] = ret[1]

QueueUrls == { queue[k].url : k \in 1..Len(queue) }

\* C12: without sitemap URLs, link-following never enqueues or fetches a URL
\* of another origin than the base URL's, nor one whose path ends in a listed
\* asset extension.
C12_SameOriginNoAssets ==
    Len(seedUrls) = 0 =>
        \A u \in FetchedUrls \cup QueueUrls :
            /\ u.origin = baseUrl.origin
            /\ ~IsAsset(u.path)

\* C13: at most one page fetch is attempted per normalized URL; a URL whose
\* fetch failed or whose path the filter rejected stays in the visited set
\* and is not fetched (again), also when it turns up in the frontier again.
C13_OneFetchPerUrl ==
    /\ \A i, j \in 1..Len(fetched) : i # j => fetched[i] # fetched[j]
    /\ failed \subseteq visited
    /\ \A i \in 1..Len(batch) :
           /\ batch[i].st \in {"filtered", "failed", "skipped"} =>
                  batch[i].norm \in visited
           /\ batch[i].st = "filtered" => batch[i].norm \notin FetchedUrls
    /\ \A u \in visited \cap FetchedUrls : ~Filtered(u.path, config)

\* C13's case: a URL whose fetch failed came up in the frontier again and was
\* skipped.
C13_Witness ==
    \E i \in 1..Len(batch) :
        /\ batch[i].st = "skipped"
        /\ batch[i].norm \in failed

\* C14: in a link-following crawl no two frontier entries ever have the same
\* normalized URL.
C14_NoDuplicateFrontierEntries ==
    Len(seedUrls) = 0 =>
        \A i, j \in 1..Len(queue) :
            i # j => normalize(queue[i].url) # normalize(queue[j].url)

\* The units of the batch that called fetchPage
Issued == {i \in 1..Len(batch) : batch[i].st \in {"fetching", "ok", "failed"}}

SameNorm(i) == {j \in 1..Len(batch) : batch[j].norm = batch[i].norm}

C16_FifoBatchesWithBarrier ==
    /\ [][lpc = "test" /\ lpc' = "await" =>
            LET n == IF concurrency < Len(queue) THEN concurrency ELSE Len(queue)
            IN  /\ Len(batch') = n
                /\ \A i \in 1..n : Entry(batch'[i].url, batch'[i].depth) = queue[i]
                /\ queue' = SubSeq(queue, n + 1, Len(queue))]_vars
    /\ [][InFlight # {} =>
            /\ Len(batch') = Len(batch)
            /\ \A i \in 1..Len(batch) :
                   Entry(batch'[i].url, batch'[i].depth)
                       = Entry(batch[i].url, batch[i].depth)
            /\ visited' = visited
            /\ fetched' = fetched]_vars
    /\ [][lpc = "await" =>
            /\ Len(queue') >= Len(queue)
            /\ SubSeq(queue', 1, Len(queue)) = queue]_vars

\* C16's case: a full batch is being awaited, one of its units has appended
\* the links it found behind an entry that was already waiting.
C16_Witness ==
    /\ lpc = "await"
    /\ concurrency > 0
    /\ Len(batch) = concurrency
    /\ \E i \in 1..Len(batch) : batch[i].st = "ok"
    /\ \E i \in 1..Len(batch) : batch[i].st = "fetching"
    /\ \E k \in 1..(Len(queue) - 1) : queue[k].depth < queue[k + 1].depth

\* C17: when the sitemap flag is not false and parseSitemap returned at least
\* one URL, the initial frontier is these URLs in order, each at depth 0, and
\* no fetched page has its links extracted; otherwise the initial frontier is
\* the base URL at depth 0 and a page fetched at depth < maxDepth has its
\* links extracted.  With the sitemap flag false no sitemap is requested.
C17_Seeding ==
    /\ [][phase = "seed" /\ phase' = "crawl" =>
            IF config.sitemap # <<FALSE>> /\ Len(urls) > 0
            THEN /\ Len(queue') = Len(urls)
                 /\ \A i \in 1..Len(urls) : queue'[i] = [url |-> urls[i], depth |-> 0]
                 /\ seedUrls = urls
            ELSE /\ queue' = << [url |-> baseUrl, depth |-> 0] >>
                 /\ seedUrls = <<>>]_vars
    /\ [][\A i \in 1..Len(batch) :
              batch[i].st = "fetching" /\ batch'[i].st = "ok" =>
                  IF config.sitemap # <<FALSE>> /\ Len(urls) > 0
                  THEN expanded' = expanded /\ queue' = queue
                  ELSE batch[i].depth < maxDepth =>
                           /\ Entry(batch[i].norm, batch[i].depth) \in expanded'
                           /\ \A l \in Range(LinksOf(batch[i].norm)) :
                                  \/ normalize(l) \in visited
                                  \/ Entry(l, batch[i].depth + 1) \in Range(queue')]_vars
    /\ [](config.sitemap = <<FALSE>> => requests = <<>> /\ urls = <<>>)

\* C17's case: the sitemap flag is false, the site serves a sitemap with
\* URLs, and the crawl returned pages found by following links from the base
\* URL without a sitemap request.
C17_Witness ==
    /\ config.sitemap = <<FALSE>>
    /\ HasDoc(sitemapUrls[1])
    /\ Len(DocAt(sitemapUrls[1]).locs) > 0
    /\ phase = "returned"
    /\ Len(results) > 1
    /\ results[1].url = baseUrl
    /\ requests = <<>>

\* The <url><loc> entries candidate k can contribute: its own when it is a
\* plain sitemap, those of its children when it is an index
LocsOfCandidate(k) ==
    IF ~HasDoc(sitemapUrls[k]) THEN {}
    ELSE LET d == DocAt(sitemapUrls[k])
         IN  IF Len(d.children) > 0
             THEN UNION { Range(DocAt(c).locs) :
                              c \in {x \in Range(d.children) : HasDoc(x)} }
             ELSE Range(d.locs)

\* C18: parseSitemap requests /sitemap.xml first; it turns to
\* /sitemap_index.xml only after that, with nothing collected so far; the list
\* only grows and holds entries of the one candidate being read; the list it
\* returns is what was collected, empty when nothing was, and no failure of a
\* sitemap request ends the crawl.
C18_CandidatesInOrder ==
    /\ [](/\ requests # <<>> => requests[1] = sitemapUrls[1]
          /\ Range(urls) \subseteq LocsOfCandidate(smIdx)
          /\ smStage = "done" => seedUrls = urls
          /\ smStage # "done" => seedUrls = <<>>
          /\ phase = "sitemap" => smStage # "done")
    /\ [][smIdx' # smIdx =>
            /\ smIdx = 1
            /\ smIdx' = 2
            /\ urls = <<>>
            /\ urls' = <<>>]_vars
    /\ [][sitemapUrls[2] \notin Range(requests) /\ sitemapUrls[2] \in Range(requests') =>
            /\ sitemapUrls[1] \in Range(requests)
            /\ smIdx = 2
            /\ urls = <<>>]_vars
    /\ [][/\ Len(urls') >= Len(urls)
          /\ SubSeq(urls', 1, Len(urls)) = urls]_vars
    /\ [][phase = "sitemap" => phase' \in {"sitemap", "seed"}]_vars

\* C18's case: /sitemap.xml was requested and gave nothing, and the list came
\* from /sitemap_index.xml.
C18_Witness ==
    /\ smStage = "done"
    /\ smIdx = 2
    /\ Len(seedUrls) > 0
    /\ requests[1] = sitemapUrls[1]
    /\ requests[2] = sitemapUrls[2]

\* The <sitemap><loc> entries of candidate k
ChildrenOfCandidate(k) ==
    IF HasDoc(sitemapUrls[k]) THEN DocAt(sitemapUrls[k]).children ELSE <<>>

LastN(s, n) == SubSeq(s, Len(s) - n + 1, Len(s))

\* C19: on entering an index the list is left as it is (the index's own
\* <url> entries are not collected) and its children become the work list;
\* the children are requested one by one in order, a child that is fetched
\* adds its <url><loc> entries, one that fails adds nothing and the next is
\* still requested; nothing but the two candidates and their children is ever
\* requested; an index that gave nothing is followed by the next candidate.
C19_IndexChildren ==
    /\ [][smStage = "candidate" /\ smStage' = "children" =>
            /\ smChildren' = ChildrenOfCandidate(smIdx)
            /\ urls' = urls]_vars
    /\ [][smStage = "children" =>
            /\ requests' = Append(requests, Head(smChildren))
            /\ smChildren' = Tail(smChildren)
            /\ \/ urls' = urls
               \/ /\ HasDoc(Head(smChildren))
                  /\ urls' = urls \o DocAt(Head(smChildren)).locs]_vars
    /\ [][smStage = "children" /\ smStage' # "children" /\ urls' = <<>> =>
            IF smIdx = 1
            THEN smIdx' = 2 /\ smStage' = "candidate" /\ phase' = "sitemap"
            ELSE phase' = "seed" /\ seedUrls' = <<>>]_vars
    /\ [](/\ \A r \in Range(requests) :
                 \/ r \in Range(sitemapUrls)
                 \/ \E k \in 1..Len(sitemapUrls) : r \in Range(ChildrenOfCandidate(k))
          /\ smStage = "children" =>
                 LET ch == ChildrenOfCandidate(smIdx)
                     n  == Len(ch) - Len(smChildren)
                 IN  /\ smChildren = SubSeq(ch, n + 1, Len(ch))
                     /\ LastN(requests, n + 1) = <<sitemapUrls[smIdx]>> \o SubSeq(ch, 1, n)
          /\ smStage = "done" /\ Len(ChildrenOfCandidate(smIdx)) > 0 =>
                 \/ Last(requests) = sitemapUrls[smIdx]
                 \/ LastN(requests, Len(ChildrenOfCandidate(smIdx)))
                        = ChildrenOfCandidate(smIdx))

\* C19's case: an index was read to the end, a child that cannot be fetched
\* was requested and skipped, the entries of another child were collected,
\* and a child's own <sitemap> entry was left alone.
C19_Witness ==
    /\ smStage = "done"
    /\ Len(seedUrls) > 0
    /\ \E c \in Range(ChildrenOfCandidate(smIdx)) :
           /\ ~HasDoc(c)
           /\ c \in Range(requests)
    /\ \E c \in Range(ChildrenOfCandidate(smIdx)) :
           /\ HasDoc(c)
           /\ Len(DocAt(c).children) > 0
           /\ Range(DocAt(c).children) \cap Range(requests) = {}

\* The URL strings the crawl has come across: the initial frontier and the
\* links extracted from the pages that were expanded
Discovered ==
    (IF Crawling THEN { InitialQueue(seedUrls)[k].url :
                            k \in 1..Len(InitialQueue(seedUrls)) }
     ELSE {})
    \cup UNION { Range(LinksOf(x.url)) : x \in expanded }

\* v is u with one more trailing slash, u's path not being the root
OneMoreSlash(u, v) ==
    /\ u.path # <<"/">>
    /\ v.path = u.path \o <<"/">>

\* u and v differ at most by the fragment and by one trailing slash
SameUpToFragmentAndSlash(u, v) ==
    /\ Parses(u)
    /\ Parses(v)
    /\ u.origin = v.origin
    /\ \/ u.path = v.path
       \/ OneMoreSlash(u, v)
       \/ OneMoreSlash(v, u)

\* C20: two discovered URLs that differ only by a fragment and/or one
\* trailing slash on a non-root path have the same normalized identity, at
\* most one fetch is issued and at most one result produced for them; the
\* root path keeps its slash.
C20_FragmentAndSlashCollapse ==
    /\ \A u, v \in Discovered :
           SameUpToFragmentAndSlash(u, v) =>
               /\ normalize(u) = normalize(v)
               /\ Cardinality({normalize(u), normalize(v)} \cap FetchedUrls) <= 1
               /\ Cardinality({normalize(u), normalize(v)} \cap ResultUrls) <= 1
    /\ normalize(baseUrl).path = <<"/">>

NoFilters == config.include = <<>> /\ config.exclude = <<>>

\* C21: with no sitemap URLs, no filters, no fetch failure and concurrency
\* >= 1, when crawlSite returns every page within maxDepth link hops of the
\* base URL is in the results, whatever the order in which the fetches of a
\* batch completed.
C21_LinkFollowingComplete ==
    /\ phase = "returned"
    /\ Len(seedUrls) = 0
    /\ NoFilters
    /\ failed = {}
    /\ concurrency >= 1
    => WithinHops(maxDepth) \subseteq ResultUrls

\* The verdict of the include / exclude filter on a pathname, as the claims
\* speak of it: no include pattern matches although some are configured, or
\* an exclude pattern matches
Rejected(pathname, cfg) ==
    \/ Len(cfg.include) > 0 /\ ~matchesPatterns(pathname, cfg.include)
    \/ Len(cfg.exclude) > 0 /\ matchesPatterns(pathname, cfg.exclude)

ExpandedUrls == { x.url : x \in expanded }

\* C22: a URL whose path the filter rejects is never fetched, gives no result
\* and never has its links extracted, and every frontier entry comes from the
\* initial frontier or from the links of a page that was fetched; when the
\* base URL's own path is rejected in a link-following crawl, no page fetch is
\* issued and the result list stays empty.
C22_FilterCutsDiscovery ==
    /\ \A u \in FetchedUrls \cup ResultUrls \cup ExpandedUrls :
           ~Rejected(u.path, config)
    /\ ExpandedUrls \subseteq ResultUrls
    /\ QueueUrls \subseteq Discovered
    /\ Len(seedUrls) = 0 /\ Rejected(normalize(baseUrl).path, config) =>
           /\ fetched = <<>>
           /\ results = <<>>
           /\ expanded = {}
           /\ Crawling => QueueUrls \subseteq {baseUrl}

\* C22's case: the base URL's path is rejected, its page has links, and the
\* link-following crawl returned with nothing fetched and nothing visited
\* but the base URL.
C22_Witness ==
    /\ phase = "returned"
    /\ Len(seedUrls) = 0
    /\ Rejected(normalize(baseUrl).path, config)
    /\ Len(LinksOf(baseUrl)) > 0
    /\ visited = {normalize(baseUrl)}
    /\ fetched = <<>>
    /\ results = <<>>

AgentFailedEarly == apc \in {"error_input", "error_nopages"}

\* C23: agentReady ends in an error when neither url nor dir is configured
\* and when the crawl or the directory gave no page with content, and then
\* nothing has been created or written; a directory or file exists only when
\* at least one page was extracted.
C23_NoOutputWithoutPages ==
    /\ [](/\ AgentFailedEarly => fs = {}
          /\ fs # {} => Len(pages) > 0
          /\ apc \in {"mkdir", "index", "pages", "done", "error_io"} => Len(pages) > 0
          /\ apc = "error_nopages" => pages = <<>>
          /\ apc = "error_input" => ~Truthy(config.url) /\ config.dir = <<>>)
    /\ [][apc = "entry" /\ ~Truthy(config.url) /\ config.dir = <<>> =>
            apc' = "error_input" /\ fs' = {}]_vars
    /\ [][apc = "check" /\ Len(pages) = 0 =>
            apc' = "error_nopages" /\ fs' = {}]_vars
    /\ [][AgentFailedEarly => apc' = apc /\ fs' = fs]_vars

\* C23's case: the crawl returned pages, none had extractable content, and
\* agentReady failed with nothing written.
C23_Witness ==
    /\ apc = "error_nopages"
    /\ Truthy(config.url)
    /\ phase = "returned"
    /\ Len(results) > 0
    /\ fs = {}

=============================================================================
